---- MODULE Spec2Model ----
(***************************************************************************)
(* Offline task list with a sync queue (outbox) and a batch sync engine.   *)
(*                                                                         *)
(*   src/src/services/taskService.ts   TaskService  (task rows + enqueue)  *)
(*   src/src/services/syncService.ts   SyncService  (sync pass, queue)     *)
(*                                                                         *)
(* Both services are async: every `await` is a point where another         *)
(* request handler may run, and where the process may die.  The handlers   *)
(* are therefore modelled one awaited storage/network call (or one tight   *)
(* group of them) per step, with a program counter per handler.            *)
(***************************************************************************)
EXTENDS Integers, Sequences, FiniteSets, TLC

\* ------------------------------------------------------------------ bounds
MaxTasks    == 3   \* task ids 1..MaxTasks (createTask hands them out in order)
MaxOps      == 2   \* task-store calls that reach their row write, in one behaviour
MaxTime     == 1   \* the clock runs 0..MaxTime
MaxPasses   == 2   \* sync() invocations in one behaviour
MaxVerdicts == 2   \* longest processed_items list the remote sends
MaxRetry    == 4   \* retry_count is tracked up to MaxRetry (see BumpRetry)

\* SYNC_BATCH_SIZE, the LIMIT of the batch query (the code's default is 50).
batchSize == 2

TaskIds == 1..MaxTasks
Times   == 0..MaxTime
PassIds == {1, 2}

NULL == "NULL"

\* ------------------------------------------------------------------- state
VARIABLES
  uniqueId,  \* schema of sync_queue: TRUE iff column id carries a uniqueness
             \* constraint (PRIMARY KEY); fixed for the whole behaviour
  clock,     \* what new Date() returns
  tasks,     \* table tasks:       [TaskIds -> row or NoRow]
  queue,     \* table sync_queue:  sequence of rows in rowid (insert) order
  nextRowid, \* rowid the next sync_queue insert gets
  ops,       \* task-store calls so far that found their row (or created it)
  mut,       \* the task-store call in flight (one at a time), up to its return
  passes,    \* sync() calls made so far
  sync,      \* [PassIds -> the local variables of that sync() call]
  acked      \* history: rowids of the queue rows the remote has answered "success"

vars == <<uniqueId, clock, tasks, queue, nextRowid, ops, mut, passes, sync, acked>>

NoRow == [exists |-> FALSE]

\* Partial<Task> field access with a default: taskData.title ?? ''
Get(rec, field, default) == IF field \in DOMAIN rec THEN rec[field] ELSE default

\* { ...existing, ...updates }
Spread(existing, updates) ==
  [k \in DOMAIN existing |-> IF k \in DOMAIN updates THEN updates[k] ELSE existing[k]]

\* Request bodies the model feeds to createTask and updateTask.
CreateInputs == { [title |-> "a"] }
UpdateInputs == { [title |-> "b"] }

\* -------------------------------------------------------------- sync_queue
\* The snapshot that the three mutations pass as `data`.
Snapshot(id, t) ==
  [id |-> id, title |-> t.title, completed |-> t.completed,
   updated_at |-> t.updated_at, is_deleted |-> t.is_deleted,
   server_id |-> t.server_id]

\* INSERT INTO sync_queue (id, task_id, operation, data, retry_count, created_at)
\*   VALUES (taskId, taskId, operation, data, 0, now)
NewQueueRow(taskId, operation, data, now) ==
  [rowid |-> nextRowid, id |-> taskId, task_id |-> taskId, operation |-> operation,
   data |-> data, retry_count |-> 0, error_message |-> NULL, created_at |-> now]

\* The insert is refused when id must be unique and a row with that id exists.
InsertRefused(q, row) == uniqueId /\ \E i \in 1..Len(q) : q[i].id = row.id

\* (variant for C4: the DELETE is left out)
DeleteFromQueueKeeps(q, id) == q

\* DELETE FROM sync_queue WHERE id = ?
DeleteFromQueue(q, id) == SelectSeq(q, LAMBDA r : r.id # id)

\* UPDATE sync_queue SET retry_count = retry_count + 1, error_message = ? WHERE id = ?
\* The column grows without limit and the code never reads it to decide
\* anything, so the model stops counting at MaxRetry ("MaxRetry or more"); the
\* bounded passes of Spec never get that far.
BumpRetry(q, id, message) ==
  [i \in 1..Len(q) |->
     IF q[i].id = id
       THEN [q[i] EXCEPT !.retry_count = IF @ < MaxRetry THEN @ + 1 ELSE @,
                         !.error_message = message]
       ELSE q[i]]

\* ------------------------------------------------------------------- Init
IdleMut == [pc |-> "idle"]

Returned(value) == [pc |-> "returned", value |-> value]

IdlePass ==
  [pc |-> "idle", items |-> <<>>, log |-> <<>>, synced |-> 0, failed |-> 0,
   errors |-> <<>>, cur |-> [hit |-> 0], outcome |-> "none",
   result |-> [returned |-> FALSE], readAt |-> 0]

Init ==
  /\ uniqueId \in BOOLEAN
  /\ clock = 0
  /\ tasks = [id \in TaskIds |-> NoRow]
  /\ queue = <<>>
  /\ nextRowid = 1
  /\ ops = 0
  /\ mut = IdleMut
  /\ passes = 0
  /\ sync = [p \in PassIds |-> IdlePass]
  /\ acked = {}

\* new Date(): never earlier than the last value read; two calls may see the
\* same millisecond.  The clock is advanced where it is read.
Nows == { t \in Times : clock <= t /\ t <= clock + 1 }

\* ------------------------------------------------------------ TaskService
\* getTask: the row, or null when it is missing or soft-deleted.
GetTask(id) ==
  IF tasks[id] = NoRow \/ tasks[id].is_deleted THEN NoRow ELSE tasks[id]

\* createTask up to and including the INSERT INTO tasks; uuidv4() is a fresh id.
CreateTask(taskData) ==
  /\ mut.pc = "idle" /\ ops < MaxOps
  /\ \E id \in TaskIds, now \in Nows :
       /\ clock' = now
       /\ tasks[id] = NoRow
       /\ \A j \in TaskIds : j < id => tasks[j] # NoRow
       /\ LET task == [exists |-> TRUE,
                       title |-> Get(taskData, "title", ""),
                       completed |-> Get(taskData, "completed", FALSE),
                       is_deleted |-> FALSE,
                       updated_at |-> now,
                       sync_status |-> "pending",
                       server_id |-> Get(taskData, "server_id", NULL)]
          IN /\ tasks' = [tasks EXCEPT ![id] = task]
             /\ mut' = [pc |-> "enqueue", call |-> "create", id |-> id,
                        operation |-> "create", data |-> Snapshot(id, task)]
  /\ ops' = ops + 1
  /\ UNCHANGED <<acked, uniqueId, queue, nextRowid, passes, sync>>

\* (variant for C17: no existence check, the update is enqueued for any id)
UpdateTaskSelectNoCheck(id, updates) ==
  /\ mut.pc = "idle" /\ ops < MaxOps
  /\ \E now \in Nows :
       /\ clock' = now
       /\ ops' = ops + 1
       /\ mut' = [pc |-> "enqueue", call |-> "update", id |-> id,
                  operation |-> "update", data |-> updates]
  /\ UNCHANGED <<acked, uniqueId, tasks, queue, nextRowid, passes, sync>>

\* updateTask: SELECT the row; not found -> return null.
UpdateTaskSelect(id, updates) ==
  /\ mut.pc = "idle" /\ ops < MaxOps
  /\ IF tasks[id] = NoRow
       THEN mut' = Returned("null") /\ UNCHANGED <<ops, clock>>
       ELSE \E now \in Nows :
              /\ clock' = now
              /\ ops' = ops + 1
              /\ mut' = [pc |-> "write", call |-> "update", id |-> id,
                         updated |-> [Spread(tasks[id], updates)
                                        EXCEPT !.updated_at = now,
                                               !.sync_status = "pending"]]
  /\ UNCHANGED <<acked, uniqueId, tasks, queue, nextRowid, passes, sync>>

\* updateTask: UPDATE tasks SET title, description, completed, is_deleted,
\* updated_at, sync_status, server_id WHERE id = ?
UpdateTaskWrite ==
  /\ mut.pc = "write" /\ mut.call = "update"
  /\ tasks' = [tasks EXCEPT ![mut.id] = mut.updated]
  /\ mut' = [pc |-> "enqueue", call |-> "update", id |-> mut.id,
             operation |-> "update", data |-> Snapshot(mut.id, mut.updated)]
  /\ UNCHANGED <<acked, uniqueId, clock, queue, nextRowid, ops, passes, sync>>

\* deleteTask: SELECT the row; not found -> return false.
DeleteTaskSelect(id) ==
  /\ mut.pc = "idle" /\ ops < MaxOps
  /\ IF tasks[id] = NoRow
       THEN mut' = Returned("false") /\ UNCHANGED <<ops, clock>>
       ELSE \E now \in Nows :
              /\ clock' = now
              /\ ops' = ops + 1
              /\ mut' = [pc |-> "write", call |-> "delete", id |-> id,
                         existing |-> tasks[id], now |-> now]
  /\ UNCHANGED <<acked, uniqueId, tasks, queue, nextRowid, passes, sync>>

\* deleteTask: UPDATE tasks SET is_deleted = 1, updated_at = ?, sync_status = 'pending'
DeleteTaskWrite ==
  /\ mut.pc = "write" /\ mut.call = "delete"
  /\ tasks' = [tasks EXCEPT ![mut.id] =
                 IF @ = NoRow THEN @
                 ELSE [@ EXCEPT !.is_deleted = TRUE, !.updated_at = mut.now,
                                !.sync_status = "pending"]]
  /\ mut' = [pc |-> "enqueue", call |-> "delete", id |-> mut.id,
             operation |-> "delete",
             data |-> [Snapshot(mut.id, mut.existing)
                         EXCEPT !.updated_at = mut.now, !.is_deleted = TRUE]]
  /\ UNCHANGED <<acked, uniqueId, clock, queue, nextRowid, ops, passes, sync>>

\* addToSyncQueue, the last await of all three mutations.  A refused insert
\* rejects the promise: the mutation ends with an exception, after its row write.
AddToSyncQueue ==
  /\ mut.pc = "enqueue"
  /\ \E now \in Nows :
     /\ clock' = now
     /\ LET row == NewQueueRow(mut.id, mut.operation, mut.data, now)
        IN IF InsertRefused(queue, row)
             THEN /\ mut' = Returned("throw")
                  /\ UNCHANGED <<queue, nextRowid>>
             ELSE /\ queue' = Append(queue, row)
                  /\ nextRowid' = nextRowid + 1
                  /\ mut' = Returned(IF mut.call = "delete" THEN "true" ELSE "task")
  /\ UNCHANGED <<acked, uniqueId, tasks, ops, passes, sync>>

\* The caller has the return value (or the exception); the call is over.
TaskCallEnds ==
  /\ mut.pc = "returned"
  /\ mut' = IdleMut
  /\ UNCHANGED <<acked, uniqueId, clock, tasks, queue, nextRowid, ops, passes, sync>>

\* ------------------------------------------------------------ SyncService
\* SELECT * FROM sync_queue ORDER BY created_at LIMIT ?
\* Insertion sort by created_at; rows with equal created_at keep rowid order.
RECURSIVE InsertByCreatedAt(_, _)
InsertByCreatedAt(sorted, row) ==
  IF sorted = <<>> THEN <<row>>
  ELSE IF sorted[Len(sorted)].created_at <= row.created_at
         THEN Append(sorted, row)
         ELSE Append(InsertByCreatedAt(SubSeq(sorted, 1, Len(sorted) - 1), row),
                     sorted[Len(sorted)])

RECURSIVE OrderByCreatedAt(_)
OrderByCreatedAt(q) ==
  IF q = <<>> THEN <<>>
  ELSE InsertByCreatedAt(OrderByCreatedAt(SubSeq(q, 1, Len(q) - 1)), q[Len(q)])

Limit(q, n) == SubSeq(q, 1, IF Len(q) < n THEN Len(q) ELSE n)

SelectBatch(q) == Limit(OrderByCreatedAt(q), batchSize)

\* updateSyncStatus: UPDATE tasks SET sync_status = ?, last_synced_at = ?,
\*   server_id = COALESCE(?, server_id) WHERE id = ?
UpdateSyncStatus(t, taskId, status, server_id) ==
  IF t[taskId] = NoRow THEN t
  ELSE [t EXCEPT ![taskId] =
          [@ EXCEPT !.sync_status = status,
                    !.server_id = IF server_id # NULL THEN server_id ELSE @]]

\* handleSyncError: bump the queue row(s) with the item's id, then mark the task.
\* Returns the two tables as <<queue, tasks>>.
HandleSyncError(q, t, item, message) ==
  <<BumpRetry(q, item.id, message), UpdateSyncStatus(t, item.task_id, "error", NULL)>>

\* for (const item of items) await this.handleSyncError(item, err)
RECURSIVE HandleSyncErrorAll(_, _, _, _)
HandleSyncErrorAll(q, t, items, message) ==
  IF items = <<>> THEN <<q, t>>
  ELSE LET one == HandleSyncError(q, t, Head(items), message)
       IN HandleSyncErrorAll(one[1], one[2], Tail(items), message)

\* (variant for C3: >= instead of >, a tie goes to the server)
ResolveConflictTieToServer(localTask, serverTask) ==
  IF serverTask.updated_at >= localTask.updated_at THEN serverTask ELSE localTask

\* resolveConflict: last write wins, the server only when strictly newer.
ResolveConflict(localTask, serverTask) ==
  IF serverTask.updated_at > localTask.updated_at THEN serverTask ELSE localTask

\* items.find(i => i.id === client_id): index of the first match, 0 for none.
Find(items, client_id) ==
  IF \E i \in 1..Len(items) : items[i].id = client_id
    THEN CHOOSE i \in 1..Len(items) :
           /\ items[i].id = client_id
           /\ \A j \in 1..(i - 1) : items[j].id # client_id
    ELSE 0

SyncResult(success, synced, failed, errors) ==
  [returned |-> TRUE, success |-> success, synced_items |-> synced,
   failed_items |-> failed, errors |-> errors]

ErrorRecord(item, message) ==
  [task_id |-> item.task_id, operation |-> item.operation, error |-> message]

\* ---- what the remote may answer
NoData == [present |-> FALSE]

\* resolved_data: the server's version of the task.
ServerSnapshots ==
  [present : {TRUE}, title : {"srv"}, completed : {TRUE}, updated_at : Times]

\* One element of processed_items for a batch of n items.  `for` is the batch
\* position the remote is answering (0: a client_id that is in no batch); the
\* client_id it carries is that item's id.  Only the fields the code reads for
\* the status are varied.
Verdicts(n) ==
  [for : 1..n, status : {"success"}, server_id : {NULL, "srv-1"},
   resolved_data : {NoData}, error : {NULL}]
  \cup
  [for : 1..n, status : {"conflict"}, server_id : {NULL, "srv-1"},
   resolved_data : ServerSnapshots, error : {NULL}]
  \cup
  [for : 1..n, status : {"conflict"}, server_id : {NULL},
   resolved_data : {NoData}, error : {NULL}]
  \cup
  [for : 1..n, status : {"rejected"}, server_id : {NULL},
   resolved_data : {NoData}, error : {NULL, "rejected by server"}]
  \cup
  [for : {0}, status : {"success"}, server_id : {NULL},
   resolved_data : {NoData}, error : {NULL}]

UnknownClientId == 0

ClientId(items, v) == IF v.for = 0 THEN UnknownClientId ELSE items[v.for].id

\* Messages of the error axios.post rejects with.
TransportErrors == {"Network Error"}

Idle(p) == sync[p].pc = "idle"

\* sync() is called: the connectivity probe is in flight.
SyncCall(p) ==
  /\ Idle(p) /\ passes < MaxPasses
  /\ passes' = passes + 1
  /\ sync' = [sync EXCEPT ![p] = [IdlePass EXCEPT !.pc = "probe"]]
  /\ UNCHANGED <<acked, uniqueId, clock, tasks, queue, nextRowid, ops, mut>>

\* (variant for C2: a failed probe is handled like a failed batch request)
ProbeFailsMarksBatch(p) ==
  /\ sync[p].pc = "probe"
  /\ LET items == SelectBatch(queue)
         after == HandleSyncErrorAll(queue, tasks, items, "offline")
     IN /\ queue' = after[1]
        /\ tasks' = after[2]
        /\ sync' = [sync EXCEPT ![p].pc = "done", ![p].outcome = "offline",
                                ![p].result = SyncResult(FALSE, 0, Len(items), <<>>)]
  /\ UNCHANGED <<acked, uniqueId, clock, nextRowid, ops, mut, passes>>

\* checkConnectivity() resolves false: return the no-op result.
ProbeFails(p) ==
  /\ sync[p].pc = "probe"
  /\ sync' = [sync EXCEPT ![p].pc = "done", ![p].outcome = "offline",
                          ![p].result = SyncResult(FALSE, 0, 0, <<>>)]
  /\ UNCHANGED <<acked, uniqueId, clock, tasks, queue, nextRowid, ops, mut, passes>>

\* checkConnectivity() resolves true and the batch is read.  (readAt is
\* bookkeeping for the properties: rows inserted from here on have a rowid
\* of at least readAt.)
ReadBatch(p) ==
  /\ sync[p].pc = "probe"
  /\ LET rawItems == SelectBatch(queue)
     IN IF rawItems = <<>>
          THEN sync' = [sync EXCEPT ![p].pc = "done", ![p].outcome = "empty",
                                    ![p].result = SyncResult(TRUE, 0, 0, <<>>)]
          ELSE sync' = [sync EXCEPT ![p].pc = "post", ![p].items = rawItems,
                                    ![p].readAt = nextRowid]
  /\ UNCHANGED <<acked, uniqueId, clock, tasks, queue, nextRowid, ops, mut, passes>>

\* (variant for C6: the catch block gives up on the first item that was
\* already retried, and reports only the items it marked)
ProcessBatchThrowsStopsEarly(p, message) ==
  /\ sync[p].pc = "post"
  /\ LET items == sync[p].items
         fresh == SelectSeq(items, LAMBDA i : i.retry_count = 0)
         after == HandleSyncErrorAll(queue, tasks, fresh, message)
     IN /\ queue' = after[1]
        /\ tasks' = after[2]
        /\ sync' = [sync EXCEPT
             ![p].pc = "done", ![p].outcome = "transport",
             ![p].result =
                SyncResult(FALSE, 0, Len(fresh),
                           [i \in 1..Len(fresh) |-> ErrorRecord(fresh[i], message)])]
  /\ UNCHANGED <<acked, uniqueId, clock, nextRowid, ops, mut, passes>>

\* processBatch() rejects (network error, timeout, non-2xx): the catch block.
ProcessBatchThrows(p, message) ==
  /\ sync[p].pc = "post"
  /\ LET items == sync[p].items
         after == HandleSyncErrorAll(queue, tasks, items, message)
     IN /\ queue' = after[1]
        /\ tasks' = after[2]
        /\ sync' = [sync EXCEPT
             ![p].pc = "done", ![p].outcome = "transport",
             ![p].result =
                SyncResult(FALSE, 0, Len(items),
                           [i \in 1..Len(items) |-> ErrorRecord(items[i], message)])]
  /\ UNCHANGED <<acked, uniqueId, clock, nextRowid, ops, mut, passes>>

\* processBatch() resolves with a body that has no processed_items list:
\* `for (... of undefined)` throws outside the try block, sync() rejects.
ProcessBatchMalformed(p) ==
  /\ sync[p].pc = "post"
  /\ sync' = [sync EXCEPT ![p].pc = "done", ![p].outcome = "exception",
                          ![p].result = [returned |-> FALSE, threw |-> TRUE]]
  /\ UNCHANGED <<acked, uniqueId, clock, tasks, queue, nextRowid, ops, mut, passes>>

\* The remote never answers the batch request.  axios.post is called without
\* a timeout, so the await in processBatch never settles: the pass has no
\* further step (only the death of the process ends it).
ProcessBatchHangs(p) ==
  /\ sync[p].pc = "post"
  /\ sync' = [sync EXCEPT ![p].pc = "hung"]
  /\ UNCHANGED <<acked, uniqueId, clock, tasks, queue, nextRowid, ops, mut, passes>>

\* processBatch() resolves with a processed_items list.  The list is fixed
\* from here on, but the client sees its elements only as the loop reaches
\* them, so the model draws each element when the loop reads it.
ProcessBatchReturns(p) ==
  /\ sync[p].pc = "post"
  /\ sync' = [sync EXCEPT ![p].pc = "loop"]
  /\ UNCHANGED <<acked, uniqueId, clock, tasks, queue, nextRowid, ops, mut, passes>>

\* Bookkeeping for the properties: which batch position the remote answered,
\* which batch item the code matched, and what the code did with it.
LogEntry(v, hit, applied, message) ==
  [for |-> v.for, hit |-> hit, applied |-> applied, error |-> message,
   resolved |-> v.resolved_data # NoData]

\* One iteration of the verdict loop, for the next element `processed`.
Verdict(p, processed) ==
  /\ sync[p].pc = "loop"
  /\ Len(sync[p].log) < MaxVerdicts
  /\ LET items == sync[p].items
         hit   == Find(items, ClientId(items, processed))
         item  == items[hit]
     IN
     IF hit = 0
       THEN \* if (!item) continue
            /\ sync' = [sync EXCEPT ![p].log =
                          Append(@, LogEntry(processed, 0, "skipped", NULL))]
            /\ UNCHANGED <<tasks, queue, acked>>
     ELSE IF processed.status = "success"
       THEN /\ tasks' = UpdateSyncStatus(tasks, item.task_id, "synced", processed.server_id)
            /\ queue' = DeleteFromQueue(queue, item.id)
            /\ sync' = [sync EXCEPT
                 ![p].synced = @ + 1,
                 ![p].log = Append(@, LogEntry(processed, hit, "synced", NULL))]
            /\ acked' = acked \cup {items[processed.for].rowid}
     ELSE IF processed.status = "conflict"
       THEN LET local == GetTask(item.task_id)
            IN IF local # NoRow /\ processed.resolved_data # NoData
                 THEN /\ sync' = [sync EXCEPT
                           ![p].pc = "resolve",
                           ![p].cur = [processed |-> processed, hit |-> hit,
                                       local |-> local,
                                       winner |-> ResolveConflict(local,
                                                    processed.resolved_data)]]
                      /\ UNCHANGED <<tasks, queue, acked>>
                 ELSE LET after == HandleSyncError(queue, tasks, item, "Conflict unresolved")
                      IN /\ queue' = after[1]
                         /\ tasks' = after[2]
                         /\ sync' = [sync EXCEPT
                              ![p].failed = @ + 1,
                              ![p].errors = Append(@, ErrorRecord(item, "Conflict unresolved")),
                              ![p].log = Append(@, LogEntry(processed, hit, "failed",
                                                            "Conflict unresolved"))]
                         /\ acked' = acked
     ELSE LET message == IF processed.error # NULL THEN processed.error ELSE "sync error"
              after == HandleSyncError(queue, tasks, item, message)
          IN /\ queue' = after[1]
             /\ tasks' = after[2]
             /\ sync' = [sync EXCEPT
                  ![p].failed = @ + 1,
                  ![p].errors = Append(@, ErrorRecord(item, message)),
                  ![p].log = Append(@, LogEntry(processed, hit, "failed", message))]
             /\ acked' = acked
  /\ UNCHANGED <<uniqueId, clock, nextRowid, ops, mut, passes>>

\* The conflict branch after getTask and resolveConflict: write the winner,
\* delete the queue row.
WriteWinner(p) ==
  /\ sync[p].pc = "resolve"
  /\ LET cur    == sync[p].cur
         item   == sync[p].items[cur.hit]
         winner == cur.winner
     IN /\ tasks' = [tasks EXCEPT ![item.task_id] =
                       [@ EXCEPT !.title = winner.title,
                                 !.completed = winner.completed,
                                 !.updated_at = winner.updated_at,
                                 !.sync_status = "synced",
                                 !.server_id = cur.processed.server_id]]
        /\ queue' = DeleteFromQueue(queue, item.id)
        /\ sync' = [sync EXCEPT
             ![p].pc = "loop",
             ![p].cur = [hit |-> 0],
             ![p].synced = @ + 1,
             ![p].log = Append(@, LogEntry(cur.processed, cur.hit, "synced", NULL))]
  /\ UNCHANGED <<acked, uniqueId, clock, nextRowid, ops, mut, passes>>

\* processed_items is exhausted: return the aggregate result.
SyncReturns(p) ==
  /\ sync[p].pc = "loop"
  /\ sync' = [sync EXCEPT
       ![p].pc = "done", ![p].outcome = "reconciled",
       ![p].result = SyncResult(sync[p].failed = 0, sync[p].synced,
                                sync[p].failed, sync[p].errors)]
  /\ UNCHANGED <<acked, uniqueId, clock, tasks, queue, nextRowid, ops, mut, passes>>

\* The route handler has sent the result; the call's locals are gone.
Respond(p) ==
  /\ sync[p].pc = "done"
  /\ sync' = [sync EXCEPT ![p] = IdlePass]
  /\ UNCHANGED <<acked, uniqueId, clock, tasks, queue, nextRowid, ops, mut, passes>>

\* The process dies and restarts: calls in flight are lost, the tables stay.
InFlight == mut.pc \notin {"idle", "returned"} \/ \E p \in PassIds : sync[p].pc \notin {"idle", "done"}

Crash ==
  /\ InFlight
  /\ mut' = IdleMut
  /\ sync' = [p \in PassIds |-> IdlePass]
  /\ UNCHANGED <<acked, uniqueId, clock, tasks, queue, nextRowid, ops, passes>>

\* ------------------------------------------------------------- scheduling
\* Spec: the caller serialises the handlers (one request at a time).
Quiet == mut.pc = "idle" /\ \A p \in PassIds : Idle(p)

TaskCall ==
  \/ \E taskData \in CreateInputs : CreateTask(taskData)
  \/ \E id \in TaskIds, updates \in UpdateInputs : UpdateTaskSelect(id, updates)
  \/ \E id \in TaskIds : DeleteTaskSelect(id)

TaskStep == UpdateTaskWrite \/ DeleteTaskWrite \/ AddToSyncQueue \/ TaskCallEnds

SyncStep(p) ==
  \/ ProbeFails(p)
  \/ ReadBatch(p)
  \/ \E message \in TransportErrors : ProcessBatchThrows(p, message)
  \/ ProcessBatchMalformed(p)
  \/ ProcessBatchHangs(p)
  \/ ProcessBatchReturns(p)
  \/ \E processed \in Verdicts(Len(sync[p].items)) : Verdict(p, processed)
  \/ WriteWinner(p)
  \/ SyncReturns(p)
  \/ Respond(p)

Next ==
  \/ Quiet /\ TaskCall
  \/ TaskStep
  \/ Quiet /\ SyncCall(1)
  \/ SyncStep(1)
  \/ Crash

Spec == Init /\ [][Next]_vars

\* Nothing in the code serialises the handlers: Express starts a handler for
\* every request and each handler yields at its awaits.  The two
\* specifications below each add one kind of overlap to Spec.  (A step groups
\* the awaits of one branch, which only leaves interleavings out.)

\* SpecAsync: task-store calls run while the sync pass is in flight.
NextAsync ==
  \/ TaskCall
  \/ TaskStep
  \/ (mut.pc = "idle" /\ SyncCall(1))
  \/ SyncStep(1)

SpecAsync == Init /\ [][NextAsync]_vars

\* SpecConc: a second POST /batch arrives while the first pass is between
\* its batch read and the end of its loop.  Task-store calls run between
\* passes as in Spec, and the remote is up and accepts what it is sent.
Reconciling(p) == sync[p].pc \in {"post", "loop", "resolve"}

Accepting(p) ==
  \/ ReadBatch(p)
  \/ ProcessBatchReturns(p)
  \/ \E processed \in Verdicts(Len(sync[p].items)) :
       processed.status = "success" /\ Verdict(p, processed)
  \/ SyncReturns(p)
  \/ Respond(p)

NextConc ==
  \/ Quiet /\ TaskCall
  \/ TaskStep
  \/ Quiet /\ SyncCall(1)
  \/ Reconciling(1) /\ SyncCall(2)
  \/ \E p \in PassIds : Accepting(p)

SpecConc == Init /\ [][NextConc]_vars

\* SpecRetry: a backlog is retried for ever.  batchSize + 1 tasks were
\* created, one entry each, and nothing was synced; from then on no
\* task-store call arrives, the remote is always reachable and answers every
\* entry of every batch, in batch order: it rejects the entries of the tasks
\* in RemoteRejects and accepts all others.  sync() is called again and again
\* (the pass counter of Spec is not used here).
RemoteRejects == 1..batchSize

BacklogTasks == 1..(batchSize + 1)

\* The rows createTask(CreateInputs) leaves behind for task id at time t.
BacklogTask(t) ==
  [exists |-> TRUE, title |-> "a", completed |-> FALSE, is_deleted |-> FALSE,
   updated_at |-> t, sync_status |-> "pending", server_id |-> NULL]

BacklogRow(id, t) ==
  [rowid |-> id, id |-> id, task_id |-> id, operation |-> "create",
   data |-> Snapshot(id, BacklogTask(t)), retry_count |-> 0,
   error_message |-> NULL, created_at |-> t]

InitBacklog ==
  /\ uniqueId \in BOOLEAN
  /\ clock = MaxTime
  /\ \E at \in [BacklogTasks -> Times] :
       /\ \A i, j \in BacklogTasks : i < j => at[i] <= at[j]
       /\ tasks = [id \in TaskIds |->
                     IF id \in BacklogTasks THEN BacklogTask(at[id]) ELSE NoRow]
       /\ queue = [id \in BacklogTasks |-> BacklogRow(id, at[id])]
  /\ nextRowid = batchSize + 2
  /\ ops = batchSize + 1
  /\ mut = IdleMut
  /\ passes = 0
  /\ sync = [p \in PassIds |-> IdlePass]
  /\ acked = {}

\* sync() is called once more.
SyncCallAgain(p) ==
  /\ Idle(p)
  /\ sync' = [sync EXCEPT ![p] = [IdlePass EXCEPT !.pc = "probe"]]
  /\ UNCHANGED <<acked, uniqueId, clock, tasks, queue, nextRowid, ops, mut, passes>>

\* The next element of processed_items answers the next batch entry.
Answer(p) ==
  \E processed \in Verdicts(Len(sync[p].items)) :
    /\ processed.for = Len(sync[p].log) + 1
    /\ processed.status =
         IF sync[p].items[processed.for].task_id \in RemoteRejects
           THEN "rejected" ELSE "success"
    /\ Verdict(p, processed)

\* The list is exhausted once every batch entry has been answered.
AnsweredAll(p) == Len(sync[p].log) = Len(sync[p].items)

NextRetry ==
  \/ SyncCallAgain(1)
  \/ ReadBatch(1)
  \/ ProcessBatchReturns(1)
  \/ Answer(1)
  \/ AnsweredAll(1) /\ SyncReturns(1)
  \/ Respond(1)

SpecRetry == InitBacklog /\ [][NextRetry]_vars /\ WF_vars(NextRetry)

\* ============================================================ properties
RowIds(q) == { q[i].rowid : i \in 1..Len(q) }

\* The row of q with the given rowid (there is at most one).
RowOf(q, rowid) == q[CHOOSE i \in 1..Len(q) : q[i].rowid = rowid]

\* C1: every task mutation that completes has appended exactly one queue
\* entry, for its task and operation and with retry_count 0, also while
\* earlier entries of that task are pending; none is refused or merged.
C1_EveryMutationEnqueuesOne ==
  [][ (mut.pc = "enqueue" /\ mut'.pc = "returned") =>
        /\ mut'.value # "throw"
        /\ Len(queue') = Len(queue) + 1
        /\ SubSeq(queue', 1, Len(queue)) = queue
        /\ queue'[Len(queue')].task_id = mut.id
        /\ queue'[Len(queue')].operation = mut.operation
        /\ queue'[Len(queue')].retry_count = 0 ]_vars

\* C2: a failed connectivity probe returns {false, 0, 0, []} and changes
\* neither table; no batch was read or sent.
C2_ProbeFailureIsNoOp ==
  [][ \A p \in PassIds :
        (sync[p].pc = "probe" /\ sync'[p].outcome = "offline") =>
          /\ sync'[p].result = SyncResult(FALSE, 0, 0, <<>>)
          /\ sync'[p].items = <<>>
          /\ queue' = queue
          /\ tasks' = tasks ]_vars

C2_Witness ==
  /\ sync[1].pc = "done" /\ sync[1].outcome = "offline"
  /\ Len(queue) = 2
  /\ \E id \in TaskIds : tasks[id] # NoRow /\ tasks[id].sync_status = "pending"

\* C3: the conflict winner is the server snapshot iff the server's updated_at
\* is strictly greater than the local one; otherwise, a tie included, it is
\* the local task.
C3_LastWriteWins ==
  \A p \in PassIds :
    sync[p].pc = "resolve" =>
      LET localTask  == sync[p].cur.local
          serverTask == sync[p].cur.processed.resolved_data
          winner     == sync[p].cur.winner
      IN /\ (winner = serverTask) <=> (serverTask.updated_at > localTask.updated_at)
         /\ (winner = localTask) <=> (serverTask.updated_at <= localTask.updated_at)

C3_Witness ==
  /\ sync[1].pc = "resolve"
  /\ sync[1].cur.processed.resolved_data.updated_at = sync[1].cur.local.updated_at
  /\ sync[1].cur.local.updated_at = MaxTime
  /\ sync[1].cur.winner = sync[1].cur.local

\* C4: a queue row that was answered "success" is out of the queue from that
\* step on, and no later pass reads it into its batch.
C4_AckedNeverAgain ==
  /\ \A i \in 1..Len(queue) : queue[i].rowid \notin acked
  /\ \A p \in PassIds :
       sync[p].pc = "post" =>
         \A i \in 1..Len(sync[p].items) : sync[p].items[i].rowid \notin acked

C4_Witness ==
  /\ acked # {}
  /\ sync[1].pc = "post"
  /\ passes = 2

\* A batch item failed once: its row is still queued, retried once more than
\* when the batch was read, carries the reason, and its task is in error.
FailedOnce(item, message) ==
  /\ item.rowid \in RowIds(queue)
  /\ RowOf(queue, item.rowid).retry_count = item.retry_count + 1
  /\ RowOf(queue, item.rowid).error_message = message
  /\ tasks[item.task_id].sync_status = "error"

\* The remote answered every batch position at most once.
AnsweredAtMostOnce(p) ==
  \A a, b \in 1..Len(sync[p].log) :
    (a # b /\ sync[p].log[a].for # 0) => sync[p].log[a].for # sync[p].log[b].for

C6_TransportFailureFailsWholeBatch ==
  [][ \A p \in PassIds :
        (sync[p].pc = "post" /\ sync'[p].outcome = "transport") =>
          LET items  == sync[p].items
              result == sync'[p].result
          IN /\ result.returned /\ ~result.success
             /\ result.synced_items = 0
             /\ result.failed_items = Len(items)
             /\ Len(result.errors) = Len(items)
             /\ \A i \in 1..Len(items) :
                  /\ result.errors[i].task_id = items[i].task_id
                  /\ result.errors[i].operation = items[i].operation
             /\ Len(queue') = Len(queue)
             /\ RowIds(queue') = RowIds(queue)
             /\ \A id \in TaskIds :
                  (tasks'[id] # NoRow /\ tasks'[id].sync_status = "synced")
                    => tasks[id].sync_status = "synced" ]_vars

C6_Witness ==
  /\ sync[1].pc = "done" /\ sync[1].outcome = "transport"
  /\ Len(sync[1].items) = 2
  /\ sync[1].items[1].retry_count > 0

\* The queue row that the verdict consumed in this step was addressed to.
AddressedNow(p, row) ==
  /\ Len(sync'[p].log) = Len(sync[p].log) + 1
  /\ LET last == sync'[p].log[Len(sync'[p].log)]
     IN /\ last.for # 0
        /\ sync[p].items[last.for].rowid = row.rowid

C9_MutationAndEnqueueAtomic ==
  mut.pc \in {"idle", "returned"} =>
    /\ \A id \in TaskIds :
         (tasks[id] # NoRow /\ tasks[id].sync_status = "pending")
           => \E i \in 1..Len(queue) : queue[i].task_id = id
    /\ \A i \in 1..Len(queue) : tasks[queue[i].task_id] # NoRow

\* C10: no step turns a non-null server_id of a task into null.
C10_ServerIdNeverNulled ==
  [][ \A id \in TaskIds :
        (tasks[id] # NoRow /\ tasks[id].server_id # NULL)
          => tasks'[id].server_id # NULL ]_vars

\* C11: a conflict verdict that carries resolved data, for an entry whose
\* task row exists (a soft-deleted row included), is never handled as a
\* failure; and the write-back puts the winner's title, completed and
\* updated_at on the row, marks it synced, deletes the entry and counts it.
C11_ConflictWriteBack ==
  [][ \A p \in PassIds :
        /\ (sync[p].pc = "loop" /\ Len(sync'[p].log) = Len(sync[p].log) + 1) =>
             LET last == sync'[p].log[Len(sync'[p].log)]
             IN (/\ last.hit # 0 /\ last.resolved
                 /\ tasks[sync[p].items[last.hit].task_id] # NoRow)
                  => last.applied = "synced"
        /\ (sync[p].pc = "resolve" /\ sync'[p].pc = "loop") =>
             LET item   == sync[p].items[sync[p].cur.hit]
                 winner == sync[p].cur.winner
                 row    == tasks'[item.task_id]
             IN /\ row.title = winner.title
                /\ row.completed = winner.completed
                /\ row.updated_at = winner.updated_at
                /\ row.sync_status = "synced"
                /\ item.rowid \notin RowIds(queue')
                /\ sync'[p].synced = sync[p].synced + 1 ]_vars

\* C12: every sync() call that ends, ends with a SyncResult; a response
\* body without a processed_items list ends it like a failed batch request.
C12_SyncAlwaysReturnsResult ==
  \A p \in PassIds :
    sync[p].pc = "done" =>
      /\ sync[p].result.returned
      /\ sync[p].outcome = "exception" =>
           /\ ~sync[p].result.success
           /\ sync[p].result.failed_items = Len(sync[p].items)

\* C17: updateTask and deleteTask on an id without a task row return the
\* not-found signal at once and change neither table; only a call that found
\* its row goes on to write and enqueue.
C17_NotFoundIsNoOp ==
  [][ /\ (mut.pc = "idle" /\ mut'.pc = "returned") =>
           /\ mut'.value \in {"null", "false"}
           /\ tasks' = tasks
           /\ queue' = queue
      /\ (mut.pc = "idle" /\ mut'.pc \in {"write", "enqueue"}
                          /\ mut'.call \in {"update", "delete"}) =>
           tasks[mut'.id] # NoRow
      /\ (mut.pc = "enqueue" /\ Len(queue') > Len(queue)) =>
           tasks[queue'[Len(queue')].task_id] # NoRow ]_vars

C17_Witness ==
  /\ mut.pc = "returned" /\ mut.value = "null"
  /\ Len(queue) = 1
  /\ tasks[1] # NoRow /\ tasks[2] = NoRow

\* C19: when a pass that submitted a batch returns, synced_items +
\* failed_items is at most the batch size, and success = true means no entry
\* of the batch is left in the queue.
C19_CountedAtMostOnce ==
  \A p \in PassIds :
    (sync[p].pc = "done" /\ sync[p].outcome = "reconciled") =>
      /\ sync[p].result.synced_items + sync[p].result.failed_items
            <= Len(sync[p].items)
      /\ sync[p].result.success =>
           \A i \in 1..Len(sync[p].items) :
             sync[p].items[i].rowid \notin RowIds(queue)

\* C15: a sync() call that has not ended can always take a step of its own:
\* it never waits on the network for an answer that does not come.
C15_SyncNeverWaitsForever ==
  \A p \in PassIds :
    sync[p].pc \notin {"idle", "done"} => ENABLED SyncStep(p)

\* C13: at most one pass is between its batch read and the end of its
\* loop; no queue row is in the batch of two such passes, and no row is
\* counted as synced by more than one pass.
C13_PassesSerialized ==
  \A p, q \in PassIds :
    p # q =>
      /\ ~(Reconciling(p) /\ Reconciling(q))
      /\ (Reconciling(p) /\ Reconciling(q)) =>
           RowIds(sync[p].items) \cap RowIds(sync[q].items) = {}
      /\ \A a \in 1..Len(sync[p].log), b \in 1..Len(sync[q].log) :
           (/\ sync[p].log[a].applied = "synced"
            /\ sync[q].log[b].applied = "synced")
             => sync[p].items[sync[p].log[a].for].rowid
                  # sync[q].items[sync[q].log[b].for].rowid

\* C14: when a pass that read a batch ends, every queue row inserted since
\* its batch read is still in the queue, with retry_count 0.
C14_OnlyTheSnapshotIsConsumed ==
  \A p \in PassIds :
    (sync[p].pc = "done" /\ sync[p].items # <<>>) =>
      \A rowid \in sync[p].readAt..(nextRowid - 1) :
        /\ rowid \in RowIds(queue)
        /\ RowOf(queue, rowid).retry_count = 0

\* C16: no step lowers the updated_at of a task row.
C16_UpdatedAtNeverDecreases ==
  [][ \A id \in TaskIds :
        tasks[id] # NoRow => tasks'[id].updated_at >= tasks[id].updated_at ]_vars

\* C18: when a pass has ended and no task-store call is in flight, no task
\* row says "synced" while a queue row of that task is pending.
C18_NoSyncedTaskWithPendingEntry ==
  \A p \in PassIds :
    (sync[p].pc = "done" /\ mut.pc \in {"idle", "returned"}) =>
      \A id \in TaskIds :
        (tasks[id] # NoRow /\ tasks[id].sync_status = "synced")
          => \A i \in 1..Len(queue) : queue[i].task_id # id

\* C20: under repeated passes against a reachable remote that answers every
\* entry, the queue eventually holds only entries the remote rejects: every
\* entry it would accept has been submitted and removed.
C20_QueueConverges ==
  <>(\A i \in 1..Len(queue) : queue[i].task_id \in RemoteRejects)

====
